---------------------------- MODULE Spec2Model ----------------------------
(***************************************************************************)
(* Verification model of the two exercises of the repository:              *)
(*   homework/tarea2_frog_visual/Tarea2_IBS.py  (stimulus selection, motor *)
(*       scheme, Euler integrator, Euler integrator with hysteresis)       *)
(*   homework/tarea3_hopfield/Tarea3_IBS.py     (Hopfield training/recall) *)
(*                                                                         *)
(* The motor scheme, the integrators and the Hopfield training compute in  *)
(* binary64, and their numbers are modelled as binary64 values with the    *)
(* operations rounded as IEEE 754 rounds them.  Python list indices are    *)
(* 0-based; sequences here are 1-based, so position j holds index j-1.     *)
(***************************************************************************)
EXTENDS Integers, Sequences, FiniteSets, TLC

VARIABLES
    \* ---- Tarea2: stimulus selection and motor scheme
    stimuli,            \* the stimulus vector handed to the functions
    selected,           \* value returned by select_stimulus
    noWinner,           \* value returned by select_stimulus_no_winner
    direction,          \* value returned by motor_scheme
    \* ---- Tarea2: euler_method
    f, y0, t0, tf, dt, I_ext,       \* arguments
    n_steps, y, t, ys, ts, e_pc,    \* locals and position
    \* ---- Tarea2: metodoEulerHisteresis
    voltajeInicial, tiempoInicial, tiempoFinal, pasoTiempo, estimulos, umbral,
    voltajeAnterior, numeroPasos, voltaje, tiempo, voltajes, tiempos, m_pc,
    \* ---- Tarea3: Hopfield
    patterns, normalization_factor, W, digit, pattern, steps, x, sweep, h_pc

selVars == <<stimuli, selected, noWinner, direction>>
eulVars == <<f, y0, t0, tf, dt, I_ext, n_steps, y, t, ys, ts, e_pc>>
hisVars == <<voltajeInicial, tiempoInicial, tiempoFinal, pasoTiempo, estimulos, umbral,
             voltajeAnterior, numeroPasos, voltaje, tiempo, voltajes, tiempos, m_pc>>
hopVars == <<patterns, normalization_factor, W, digit, pattern, steps, x, sweep, h_pc>>
vars == <<selVars, eulVars, hisVars, hopVars>>

-----------------------------------------------------------------------------
(* Helpers.                                                               *)

Abs(a) == IF a < 0 THEN -a ELSE a

RECURSIVE SeqsUpTo(_, _)
\* all sequences over S of length 0..n
SeqsUpTo(S, n) ==
    IF n = 0 THEN {<<>>}
    ELSE LET P == SeqsUpTo(S, n - 1)
         IN  P \cup {Append(s, e) : s \in {q \in P : Len(q) = n - 1}, e \in S}

-----------------------------------------------------------------------------
(* IEEE 754 binary64 arithmetic, as Python's float performs it (round to    *)
(* nearest, ties to even).  A float is <<s, hi, lo, e>>: sign s in          *)
(* {-1, 0, 1} and value s * (hi * 2^28 + lo) * 2^e.  A normal number has    *)
(* its 53-bit significand hi * 2^28 + lo in [2^52, 2^53) and e in           *)
(* -1074..971; a subnormal number has e = -1074 and a significand below     *)
(* 2^52; zero is <<0, 0, 0, 0>> (both zeros of binary64 are this one value, *)
(* they compare equal); the infinities are <<s, 2^24, 0, 972>>, which       *)
(* orders them beyond every finite number; NaN is <<0, 0, 0, 1>>.  Integers *)
(* that meet a float are converted exactly, as Python converts them.        *)

Base == 2^28
Limb == 2^14

\* number of bits of n, 0 <= n < 2^30
BitLen(n) == CHOOSE k \in 0..30 : n < 2^k /\ (k = 0 \/ 2^(k - 1) <= n)

\* naturals below 2^58 as pairs <<hi, lo>> with value hi * 2^28 + lo
PBitLen(a) == IF a[1] > 0 THEN 28 + BitLen(a[1]) ELSE BitLen(a[2])
PLt(a, b) == a[1] < b[1] \/ (a[1] = b[1] /\ a[2] < b[2])
PAdd(a, b) ==
    LET lo == a[2] + b[2]
    IN  <<a[1] + b[1] + (lo \div Base), lo % Base>>
\* a - b for a >= b
PSub(a, b) ==
    LET lo == a[2] - b[2]
    IN  IF lo < 0 THEN <<a[1] - b[1] - 1, lo + Base>> ELSE <<a[1] - b[1], lo>>
\* a * 2^k
PShl(a, k) ==
    IF k >= 28
    THEN <<(IF a[1] = 0 THEN 0 ELSE a[1] * 2^k) + a[2] * 2^(k - 28), 0>>
    ELSE <<a[1] * 2^k + (a[2] \div 2^(28 - k)), (a[2] % 2^(28 - k)) * 2^k>>
\* floor(a / 2^k)
PShr(a, k) ==
    IF k >= 59 THEN <<0, 0>>
    ELSE IF k >= 28 THEN <<0, a[1] \div 2^(k - 28)>>
    ELSE <<a[1] \div 2^k, (a[2] \div 2^k) + (a[1] % 2^k) * 2^(28 - k)>>
\* whether PShr(a, k) dropped a non-zero bit
PLost(a, k) ==
    IF k >= 59 THEN a # <<0, 0>>
    ELSE IF k >= 28 THEN a[2] # 0 \/ a[1] % 2^(k - 28) # 0
    ELSE a[2] % 2^k # 0
\* sticky bit: an inexact value is made odd
Jam(a, lost) == IF lost /\ a[2] % 2 = 0 THEN <<a[1], a[2] + 1>> ELSE a

EMin == -1074   \* exponent of the last bit of the smallest normal number
EMax == 971     \* exponent of the last bit of the largest finite number

FZero == <<0, 0, 0, 0>>
FNaN == <<0, 0, 0, 1>>
FInf(s) == <<s, 2^24, 0, EMax + 1>>
Mant(a) == <<a[2], a[3]>>

IsNaN(a) == a = FNaN
IsInf(a) == a[1] # 0 /\ a[4] > EMax
IsFinite(a) == ~IsNaN(a) /\ ~IsInf(a)
\* neither zero nor subnormal nor infinite nor NaN
IsNormal(a) == a[1] # 0 /\ a[2] >= 2^24 /\ a[4] <= EMax

\* sign, significand and exponent packed: zero when everything was rounded
\* away, an infinity beyond the largest finite number
Pack(s, m, e) ==
    IF m = <<0, 0>> THEN FZero
    ELSE IF e > EMax THEN FInf(s)
    ELSE <<s, m[1], m[2], e>>

\* the float nearest to s * T * 2^e (T # 0), ties to even: 53 significant
\* bits, fewer where the last bit would fall below 2^EMin
Round(s, T, e) ==
    LET n == PBitLen(T)
        et == IF e + n - 53 > EMin THEN e + n - 53 ELSE EMin
        k == et - e
    IN  IF k <= 0 THEN Pack(s, PShl(T, -k), et)
        ELSE LET h == PShr(T, k - 1)
                 q == PShr(h, 1)
                 up == h[2] % 2 = 1 /\ (PLost(T, k - 1) \/ q[2] % 2 = 1)
                 q2 == IF up THEN PAdd(q, <<0, 1>>) ELSE q
             IN  IF q2 = <<2^25, 0>> THEN Pack(s, <<2^24, 0>>, et + 1)
                 ELSE Pack(s, q2, et)

\* a finite non-zero float with its significand shifted up to 53 bits (the
\* exponent of a subnormal number goes below EMin)
Normalise(a) ==
    IF a[2] >= 2^24 THEN a
    ELSE LET m == PShl(Mant(a), 53 - PBitLen(Mant(a)))
         IN  <<a[1], m[1], m[2], a[4] - (53 - PBitLen(Mant(a)))>>

\* -a
FNeg(a) == <<-a[1], a[2], a[3], a[4]>>

\* a + b
FAdd(a, b) ==
    IF IsNaN(a) \/ IsNaN(b) THEN FNaN
    ELSE IF IsInf(a) THEN (IF IsInf(b) /\ a[1] # b[1] THEN FNaN ELSE a)
    ELSE IF IsInf(b) THEN b
    ELSE IF a[1] = 0 THEN b
    ELSE IF b[1] = 0 THEN a
    ELSE LET big == IF a[4] >= b[4] THEN a ELSE b
             small == IF a[4] >= b[4] THEN b ELSE a
             d == big[4] - small[4]
             X == PShl(Mant(big), 3)
             Y == IF d <= 3 THEN PShl(Mant(small), 3 - d)
                  ELSE Jam(PShr(Mant(small), d - 3), PLost(Mant(small), d - 3))
             E == big[4] - 3
         IN  IF big[1] = small[1] THEN Round(big[1], PAdd(X, Y), E)
             ELSE IF X = Y THEN FZero
             ELSE IF PLt(Y, X) THEN Round(big[1], PSub(X, Y), E)
             ELSE Round(small[1], PSub(Y, X), E)

\* a - b
FSub(a, b) == FAdd(a, FNeg(b))

\* a * b for normalised a and b: the 106-bit product of the significands
\* from 14-bit limbs
FMulFinite(a, b) ==
    LET a0 == a[3] % Limb
        a1 == a[3] \div Limb
        a2 == a[2] % Limb
        a3 == a[2] \div Limb
        b0 == b[3] % Limb
        b1 == b[3] \div Limb
        b2 == b[2] % Limb
        b3 == b[2] \div Limb
        k0 == a0 * b0
        k1 == a0 * b1 + a1 * b0 + (k0 \div Limb)
        k2 == a0 * b2 + a1 * b1 + a2 * b0 + (k1 \div Limb)
        k3 == a0 * b3 + a1 * b2 + a2 * b1 + a3 * b0 + (k2 \div Limb)
        k4 == a1 * b3 + a2 * b2 + a3 * b1 + (k3 \div Limb)
        k5 == a2 * b3 + a3 * b2 + (k4 \div Limb)
        k6 == a3 * b3 + (k5 \div Limb)
        w0 == (k0 % Limb) + (k1 % Limb) * Limb
        w1 == (k2 % Limb) + (k3 % Limb) * Limb
        w2 == (k4 % Limb) + (k5 % Limb) * Limb
        T == <<(w2 \div 2^22) + k6 * 2^6, (w1 \div 2^22) + (w2 % 2^22) * 2^6>>
        lost == w0 # 0 \/ w1 % 2^22 # 0
    IN  Round(a[1] * b[1], Jam(T, lost), a[4] + b[4] + 50)

\* a * b
FMul(a, b) ==
    IF IsNaN(a) \/ IsNaN(b) THEN FNaN
    ELSE IF IsInf(a) \/ IsInf(b)
    THEN (IF a[1] = 0 \/ b[1] = 0 THEN FNaN ELSE FInf(a[1] * b[1]))
    ELSE IF a[1] = 0 \/ b[1] = 0 THEN FZero
    ELSE FMulFinite(Normalise(a), Normalise(b))

\* one step of binary long division by d on <<quotient, remainder>>
DivStep(st, d) ==
    LET r2 == PShl(st[2], 1)
    IN  IF PLt(r2, d) THEN <<PShl(st[1], 1), r2>>
        ELSE <<PAdd(PShl(st[1], 1), <<0, 1>>), PSub(r2, d)>>

RECURSIVE DivLoop(_, _, _)
\* k >= 1 steps of the long division, done in two halves; once the remainder
\* is 0 the remaining quotient bits are 0
DivLoop(st, d, k) ==
    IF k = 1 THEN DivStep(st, d)
    ELSE LET h == DivLoop(st, d, k \div 2)
         IN  IF h[2] = <<0, 0>> THEN <<PShl(h[1], k - (k \div 2)), h[2]>>
             ELSE DivLoop(h, d, k - (k \div 2))

\* a / b for normalised a and b
FDivFinite(a, b) ==
    LET ge == ~PLt(Mant(a), Mant(b))
        qr == DivLoop(<<IF ge THEN <<0, 1>> ELSE <<0, 0>>,
                        IF ge THEN PSub(Mant(a), Mant(b)) ELSE Mant(a)>>,
                      Mant(b), 55)
    IN  Round(a[1] * b[1], Jam(qr[1], qr[2] # <<0, 0>>), a[4] - b[4] - 55)

\* a / b for b # 0 (Python raises ZeroDivisionError for b = 0)
FDiv(a, b) ==
    IF IsNaN(a) \/ IsNaN(b) THEN FNaN
    ELSE IF IsInf(a) THEN (IF IsInf(b) THEN FNaN ELSE FInf(a[1] * b[1]))
    ELSE IF IsInf(b) \/ a[1] = 0 THEN FZero
    ELSE FDivFinite(Normalise(a), Normalise(b))

\* float(n) for an integer n, exact
FInt(n) ==
    IF n = 0 THEN FZero
    ELSE Round(IF n > 0 THEN 1 ELSE -1, <<Abs(n) \div Base, Abs(n) % Base>>, 0)

\* the float a decimal literal n/d denotes: the nearest to the rational n/d
Float(r) == FDiv(FInt(r[1]), FInt(r[2]))

\* a < b (False when either is NaN)
FLt(a, b) ==
    IF IsNaN(a) \/ IsNaN(b) THEN FALSE
    ELSE IF a[1] # b[1] THEN a[1] < b[1]
    ELSE IF a[1] = 0 THEN FALSE
    ELSE IF a[1] > 0 THEN a[4] < b[4] \/ (a[4] = b[4] /\ PLt(Mant(a), Mant(b)))
    ELSE b[4] < a[4] \/ (a[4] = b[4] /\ PLt(Mant(b), Mant(a)))
\* a <= b (False when either is NaN)
FLe(a, b) == ~IsNaN(a) /\ ~IsNaN(b) /\ ~FLt(b, a)
FAbs(a) == <<Abs(a[1]), a[2], a[3], a[4]>>
FSgn(a) == a[1]

\* Python int(a) for finite a with |a| < 2^31: truncation toward zero (int
\* raises OverflowError for an infinity and ValueError for NaN)
FTrunc(a) ==
    IF a[1] = 0 \/ a[4] <= -53 THEN 0
    ELSE LET q == IF a[4] < 0 THEN PShr(Mant(a), -a[4]) ELSE PShl(Mant(a), a[4])
         IN  a[1] * (q[1] * Base + q[2])

-----------------------------------------------------------------------------
(* Tarea2: select_stimulus, select_stimulus_no_winner, motor_scheme.       *)
(* Intensities are compared only (max, ==), so they are modelled as        *)
(* integers counting tenths: 0.9 is 9.                                     *)

MaxN == 4       \* longest enumerated stimulus vector
MaxVal == 2     \* largest enumerated intensity

stimuli_1 == <<1, 5, 8, 6, 2, 7, 4, 3, 9, 2>>
stimuli_2 == <<1, 5, 8, 9, 2, 7, 4, 3, 9, 2>>
stimuli_3 == <<1, 5, 7, 4, 9, 8, 2, 9, 3, 5>>

Unset == [kind |-> "unset"]
None == [kind |-> "none"]
Index(i) == [kind |-> "index", i |-> i]
List(l) == [kind |-> "list", l |-> l]

\* max(stimuli) for a non-empty sequence
Max(s) == CHOOSE v \in {s[j] : j \in 1..Len(s)} : \A j \in 1..Len(s) : s[j] <= v

RECURSIVE IndicesFrom(_, _, _)
\* [i for i, val in enumerate(s) if val == v], scanning from position j
IndicesFrom(s, v, j) ==
    IF j > Len(s) THEN <<>>
    ELSE IF s[j] = v THEN <<j - 1>> \o IndicesFrom(s, v, j + 1)
         ELSE IndicesFrom(s, v, j + 1)

\* faulty variant: only the first index attaining the maximum (stimuli.index(max))
max_indices_first(s) == <<IndicesFrom(s, Max(s), 1)[1]>>

max_indices(s) == IndicesFrom(s, Max(s), 1)

select_stimulus(s) ==
    LET mi == max_indices(s)
    IN  IF Len(mi) > 1 THEN List(mi) ELSE Index(mi[1])

select_stimulus_no_winner(s) ==
    LET mi == max_indices(s)
    IN  IF Len(mi) > 1 THEN None ELSE Index(mi[1])

RECURSIVE FSumTo(_, _)
\* 0 + l[1] + ... + l[k], left to right
FSumTo(l, k) == IF k = 0 THEN FZero ELSE FAdd(FSumTo(l, k - 1), l[k])

\* sum(list) of floats
FSum(l) == FSumTo(l, Len(l))

\* (n - 1) / 2
Half(n) == FDiv(FInt(n - 1), FInt(2))

\* faulty variant: centres on n / 2 instead of (n - 1) / 2
motor_scheme_off_centre(s) ==
    LET selected_indices == select_stimulus(s)
        n == Len(s)
    IN  IF selected_indices.kind = "list"
        THEN LET l == selected_indices.l
             IN  FDiv(FSum([k \in 1..Len(l) |-> FSub(FInt(l[k]), FDiv(FInt(n), FInt(2)))]),
                      FInt(Len(l)))
        ELSE FSub(FInt(selected_indices.i), FDiv(FInt(n), FInt(2)))

\* sum([i - (n - 1) / 2 for i in selected_indices]) / len(selected_indices),
\* or selected_indices - (n - 1) / 2 for a single index
motor_scheme(s) ==
    LET selected_indices == select_stimulus(s)
        n == Len(s)
    IN  IF selected_indices.kind = "list"
        THEN LET l == selected_indices.l
             IN  FDiv(FSum([k \in 1..Len(l) |-> FSub(FInt(l[k]), Half(n))]), FInt(Len(l)))
        ELSE FSub(FInt(selected_indices.i), Half(n))

StimulusInputs ==
    (SeqsUpTo(0..MaxVal, MaxN) \ {<<>>}) \cup {stimuli_1, stimuli_2, stimuli_3}

SelectStimulus ==
    /\ stimuli # <<>>
    /\ selected = Unset
    /\ selected' = select_stimulus(stimuli)
    /\ UNCHANGED <<stimuli, noWinner, direction>>
    /\ UNCHANGED <<eulVars, hisVars, hopVars>>

SelectStimulusNoWinner ==
    /\ stimuli # <<>>
    /\ noWinner = Unset
    /\ noWinner' = select_stimulus_no_winner(stimuli)
    /\ UNCHANGED <<stimuli, selected, direction>>
    /\ UNCHANGED <<eulVars, hisVars, hopVars>>

MotorScheme ==
    /\ stimuli # <<>>
    /\ direction = Unset
    /\ direction' = [kind |-> "direction", v |-> motor_scheme(stimuli)]
    /\ UNCHANGED <<stimuli, selected, noWinner>>
    /\ UNCHANGED <<eulVars, hisVars, hopVars>>

-----------------------------------------------------------------------------
(* Tarea2: euler_method and the membrane derivative.                       *)

tau == 10           \* time constant set inside membrane_potential
v_rest == -65       \* resting potential set inside membrane_potential

MaxTau == 2     \* largest time constant, in tenths, of the enumerated V_rest = 0 derivatives
MaxT == 3       \* largest enumerated start / end time, in tenths

\* the derivative (-(V - V_rest) + I) / tau with its two constants as arguments
g(V, tt, I, tauI, V_restI) == FDiv(FAdd(FNeg(FSub(V, V_restI)), I), tauI)

membrane_potential(v, tt, I) == g(v, tt, I, FInt(tau), FInt(v_rest))

\* a derivative is passed as the pair of constants of its body
Apply(fn, v, tt, I) == g(v, tt, I, fn.tau, fn.v_rest)

membrane_potential_fn == [tau |-> FInt(tau), v_rest |-> FInt(v_rest)]

\* floats at the edges of binary64
Largest2 == <<1, 2^24, 0, EMax>>    \* 2^1023, about 9e307
Smallest == <<1, 0, 1, EMin>>       \* 5e-324, the least subnormal number

\* the float next below a, for a positive a whose significand is not a
\* power of two
Below(a) ==
    LET m == PSub(Mant(a), <<0, 1>>)
    IN  <<a[1], m[1], m[2], a[4]>>

\* time constants of the enumerated V_rest = 0 derivatives
TimeConstants ==
    {Float(<<k, 10>>) : k \in 1..MaxTau} \cup {Float(<<15, 100>>), Float(<<19, 10>>)}
Derivatives ==
    {membrane_potential_fn} \cup {[tau |-> c, v_rest |-> FZero] : c \in TimeConstants}

StartTimes == {Float(<<k, 10>>) : k \in 0..MaxT}
EndTimes == StartTimes \cup {FInt(2)}
StepSizes ==
    {Float(<<k, 10>>) : k \in -1..3}
        \cup {Below(Float(<<15, 100>>)), Float(<<15, 100>>), Float(<<18, 10>>), Smallest}
InitialValues == {FInt(-70), FInt(1), FInt(7), Largest2, FNeg(Smallest)}
ExternalInputs == {FZero, FInt(9)}

\* faulty variant: the increment is subtracted
euler_body_minus(fn, yy, tt, h, I) == <<FSub(yy, FMul(Apply(fn, yy, tt, I), h)), FAdd(tt, h)>>

\* one pass of the loop body of euler_method: <<y, t>> after the pass
euler_body(fn, yy, tt, h, I) == <<FAdd(yy, FMul(Apply(fn, yy, tt, I), h)), FAdd(tt, h)>>

\* n_steps = int((tf - t0) / dt); the division raises ZeroDivisionError for
\* dt = 0, and int raises OverflowError for an infinite quotient and
\* ValueError for NaN
EulerEnter ==
    /\ e_pc = "call"
    /\ IF dt = FZero \/ ~IsFinite(FDiv(FSub(tf, t0), dt))
       THEN /\ e_pc' = "raised"
            /\ UNCHANGED <<n_steps, y, t, ys, ts>>
       ELSE /\ n_steps' = FTrunc(FDiv(FSub(tf, t0), dt))
            /\ y' = y0
            /\ t' = t0
            /\ ys' = <<y0>>
            /\ ts' = <<t0>>
            /\ e_pc' = "loop"
    /\ UNCHANGED <<f, y0, t0, tf, dt, I_ext>>
    /\ UNCHANGED <<selVars, hisVars, hopVars>>

\* for _ in range(n_steps): one iteration
EulerStep ==
    /\ e_pc = "loop"
    /\ Len(ys) - 1 < n_steps
    /\ LET r == euler_body(f, y, t, dt, I_ext)
       IN  /\ y' = r[1]
           /\ t' = r[2]
           /\ ys' = Append(ys, r[1])
           /\ ts' = Append(ts, r[2])
    /\ UNCHANGED <<f, y0, t0, tf, dt, I_ext, n_steps, e_pc>>
    /\ UNCHANGED <<selVars, hisVars, hopVars>>

\* range(n_steps) exhausted (at once when n_steps <= 0): return ts, ys
EulerReturn ==
    /\ e_pc = "loop"
    /\ Len(ys) - 1 >= n_steps
    /\ e_pc' = "returned"
    /\ UNCHANGED <<f, y0, t0, tf, dt, I_ext, n_steps, y, t, ys, ts>>
    /\ UNCHANGED <<selVars, hisVars, hopVars>>

-----------------------------------------------------------------------------
(* Tarea2: metodoEulerHisteresis with potencialMembrana.                   *)

voltajeReposo == -65    \* resting potential set inside potencialMembrana
MaxStim == 2            \* longest enumerated stimulus sequence
MaxTiempo == 4          \* largest enumerated final time, in tenths

\* tau = 10 inside potencialMembrana as well
potencialMembrana(v, tt, corrienteExterna) ==
    FDiv(FAdd(FNeg(FSub(v, FInt(voltajeReposo))), corrienteExterna), FInt(tau))

\* corrienteExterna of loop iteration i (0-based)
corriente(est, i) == IF i < Len(est) THEN FMul(est[i + 1], FInt(10)) ELSE FZero

\* faulty variant: the threshold comparison is >=
gate_inclusive(v, tt, corrienteExterna, um, vAnterior, paso) ==
    IF FLe(um, corrienteExterna)
    THEN LET nv == FAdd(v, FMul(potencialMembrana(v, tt, corrienteExterna), paso))
         IN  <<nv, nv>>
    ELSE <<vAnterior, vAnterior>>

\* faulty variant: a driven step does not update voltajeAnterior
gate_forgetful(v, tt, corrienteExterna, um, vAnterior, paso) ==
    IF FLt(um, corrienteExterna)
    THEN <<FAdd(v, FMul(potencialMembrana(v, tt, corrienteExterna), paso)), vAnterior>>
    ELSE <<vAnterior, vAnterior>>

\* the if/else of the loop body: <<voltaje, voltajeAnterior>> after it
gate(v, tt, corrienteExterna, um, vAnterior, paso) ==
    IF FLt(um, corrienteExterna)
    THEN LET nv == FAdd(v, FMul(potencialMembrana(v, tt, corrienteExterna), paso))
         IN  <<nv, nv>>
    ELSE <<vAnterior, vAnterior>>

StimulusLevels == {FZero, Float(<<7, 100>>), Float(<<1, 2>>), FInt(1)}
Thresholds == {FInt(-1), FZero, Float(<<7, 10>>), FInt(5)}
Voltages == {FInt(-65), FInt(-70)}
FinalTimes == {Float(<<k, 10>>) : k \in 0..MaxTiempo}
Pasos == {FZero, Float(<<1, 10>>), Float(<<2, 10>>)}

\* numeroPasos = int((tiempoFinal - tiempoInicial) / pasoTiempo); the division
\* raises ZeroDivisionError for pasoTiempo = 0
MetodoEnter ==
    /\ m_pc = "call"
    /\ IF pasoTiempo = FZero
       THEN /\ m_pc' = "raised"
            /\ UNCHANGED <<numeroPasos, voltaje, tiempo, voltajes, tiempos>>
       ELSE /\ numeroPasos' = FTrunc(FDiv(FSub(tiempoFinal, tiempoInicial), pasoTiempo))
            /\ voltaje' = voltajeInicial
            /\ tiempo' = tiempoInicial
            /\ voltajes' = <<voltajeInicial>>
            /\ tiempos' = <<tiempoInicial>>
            /\ m_pc' = "loop"
    /\ UNCHANGED <<voltajeInicial, tiempoInicial, tiempoFinal, pasoTiempo, estimulos,
                   umbral, voltajeAnterior>>
    /\ UNCHANGED <<selVars, eulVars, hopVars>>

\* for i in range(numeroPasos): iteration i = len(voltajes) - 1
MetodoStep ==
    /\ m_pc = "loop"
    /\ Len(voltajes) - 1 < numeroPasos
    /\ LET i == Len(voltajes) - 1
           r == gate(voltaje, tiempo, corriente(estimulos, i), umbral, voltajeAnterior,
                     pasoTiempo)
       IN  /\ voltaje' = r[1]
           /\ voltajeAnterior' = r[2]
           /\ tiempo' = FAdd(tiempo, pasoTiempo)
           /\ voltajes' = Append(voltajes, r[1])
           /\ tiempos' = Append(tiempos, FAdd(tiempo, pasoTiempo))
    /\ UNCHANGED <<voltajeInicial, tiempoInicial, tiempoFinal, pasoTiempo, estimulos,
                   umbral, numeroPasos, m_pc>>
    /\ UNCHANGED <<selVars, eulVars, hopVars>>

MetodoReturn ==
    /\ m_pc = "loop"
    /\ Len(voltajes) - 1 >= numeroPasos
    /\ m_pc' = "returned"
    /\ UNCHANGED <<voltajeInicial, tiempoInicial, tiempoFinal, pasoTiempo, estimulos,
                   umbral, voltajeAnterior, numeroPasos, voltaje, tiempo, voltajes, tiempos>>
    /\ UNCHANGED <<selVars, eulVars, hopVars>>

-----------------------------------------------------------------------------
(* Tarea3: train_hopfield, hopfield_step_async, recall_async.              *)

MaxL == 3       \* longest enumerated pattern
MaxP == 2       \* largest enumerated batch
MaxSteps == 2   \* largest enumerated number of sweeps

default_normalization_factor == Float(<<1, 20>>)   \* normalization_factor=0.05
default_steps == 50                         \* steps=50

\* digits 5..9 on the 5x5 grid, row by row
patterns_5_9 ==
    <<<< -1,  1,  1,  1,  1,
          1, -1, -1, -1, -1,
         -1,  1,  1,  1, -1,
         -1, -1, -1, -1,  1,
          1,  1,  1,  1, -1>>,

      << -1,  1, -1, -1, -1,
         -1,  1, -1, -1, -1,
         -1,  1,  1,  1, -1,
         -1,  1, -1, -1,  1,
         -1,  1,  1,  1, -1>>,

      <<  1,  1,  1,  1,  1,
         -1, -1, -1,  1, -1,
         -1, -1,  1, -1, -1,
         -1,  1, -1, -1, -1,
          1, -1, -1, -1, -1>>,

      <<  1,  1,  1, -1, -1,
          1, -1,  1, -1, -1,
          1,  1,  1, -1, -1,
          1, -1,  1, -1, -1,
          1,  1,  1, -1, -1>>,

      << -1, -1,  1,  1,  1,
         -1,  1, -1, -1,  1,
         -1, -1,  1,  1,  1,
         -1, -1, -1, -1,  1,
         -1, -1, -1, -1,  1>> >>

\* np.outer(p, p)
outer(p, q) == [i \in 1..Len(p) |-> [j \in 1..Len(q) |-> p[i] * q[j]]]

RECURSIVE accumulate(_, _, _)
\* W after "for p in patterns: W += np.outer(p, p)" over the first k patterns
accumulate(ps, k, num_neurons) ==
    IF k = 0 THEN [i \in 1..num_neurons |-> [j \in 1..num_neurons |-> 0]]
    ELSE LET A == accumulate(ps, k - 1, num_neurons)
             O == outer(ps[k], ps[k])
         IN  [i \in 1..num_neurons |-> [j \in 1..num_neurons |-> A[i][j] + O[i][j]]]

\* np.fill_diagonal(M, 0)
fill_diagonal(M) ==
    [i \in 1..Len(M) |-> [j \in 1..Len(M[i]) |-> IF i = j THEN FZero ELSE M[i][j]]]

\* faulty variant: the self-connections are left in (no np.fill_diagonal)
train_hopfield_keep_diagonal(ps, nf) ==
    LET num_neurons == Len(ps[1])
        A == accumulate(ps, Len(ps), num_neurons)
    IN  [i \in 1..num_neurons |->
            [j \in 1..num_neurons |-> FMul(FDiv(FInt(A[i][j]), FInt(num_neurons)), nf)]]

\* W += np.outer(p, p) adds small integers and is exact; W /= num_neurons and
\* W * normalization_factor each round
train_hopfield(ps, nf) ==
    LET num_neurons == Len(ps[1])
        A == accumulate(ps, Len(ps), num_neurons)
        D == [i \in 1..num_neurons |->
                [j \in 1..num_neurons |-> FDiv(FInt(A[i][j]), FInt(num_neurons))]]
        Z == fill_diagonal(D)
    IN  [i \in 1..num_neurons |-> [j \in 1..num_neurons |-> FMul(Z[i][j], nf)]]

Word == 2^18

RECURSIVE ISum(_, _, _)
\* fn[lo] + ... + fn[hi] for integers, lo <= hi
ISum(fn, lo, hi) ==
    IF lo = hi THEN fn[lo]
    ELSE LET mid == (lo + hi) \div 2
         IN  ISum(fn, lo, mid) + ISum(fn, mid + 1, hi)

(* np.dot(W[i], x) in real arithmetic: the exact sum of the products        *)
(* W[i][j] * x[j], which are binary64 values because x[j] is -1, 0 or 1.    *)
(* With e the least exponent of a non-zero product the sum is               *)
(* (d2 * 2^36 + d1 * 2^18 + d0) * 2^e, returned as <<d2, d1, d0>> with      *)
(* 0 <= d1, d0 < 2^18.  The significands are added in three 18-bit words;   *)
(* the weights of a row are within a factor 2^7 of each other (they are     *)
(* correlations of a few patterns, scaled alike).                           *)
dot(w, v) ==
    LET n == Len(v)
        nz == {j \in 1..n : w[j][1] * v[j] # 0}
        e == CHOOSE a \in {w[j][4] : j \in nz} : \A j \in nz : a <= w[j][4]
        sc == [j \in 1..n |-> IF j \in nz THEN w[j][1] * v[j] * 2^(w[j][4] - e) ELSE 0]
        S2 == ISum([j \in 1..n |-> sc[j] * (w[j][2] \div 2^8)], 1, n)
        S1 == ISum([j \in 1..n |-> sc[j] * ((w[j][3] \div Word) + (w[j][2] % 2^8) * 2^10)],
                   1, n)
        S0 == ISum([j \in 1..n |-> sc[j] * (w[j][3] % Word)], 1, n)
        t1 == S1 + (S0 \div Word)
    IN  IF nz = {} THEN <<0, 0, 0>>
        ELSE <<S2 + (t1 \div Word), t1 % Word, S0 % Word>>

(* np.sign(np.dot(W[i], x)).  np.dot adds the products in binary64, in an   *)
(* order the numerical library chooses, so the value computed is the exact  *)
(* sum up to the rounding of the partial sums.  With at most two non-zero   *)
(* products there is one rounding and the sign computed is the sign of the  *)
(* exact sum (a + (-a) is 0.0).  An exact sum of at least 2^36 units is far *)
(* above the rounding error (below 2^17 units for 25 products) and gives    *)
(* its sign.  A smaller exact sum of three or more products comes from      *)
(* products that cancel up to their own rounding; the partial sums need not *)
(* cancel the same way and the computed value can be 0.0 or a tiny value of *)
(* either sign.                                                             *)
sign_dot(w, v) ==
    LET d == dot(w, v)
        nz == {j \in 1..Len(v) : w[j][1] * v[j] # 0}
        sgn == IF d[1] < 0 THEN -1 ELSE IF d = <<0, 0, 0>> THEN 0 ELSE 1
        large == d[1] >= 1 \/ d[1] <= -2 \/ d = <<-1, 0, 0>>
    IN  IF large \/ Cardinality(nz) <= 2 THEN {sgn} ELSE {-1, 0, 1}

RECURSIVE step_upto(_, _, _)
\* the vectors the in-place updates of neurons 1..k can leave, from x0
step_upto(x0, Wm, k) ==
    IF k = 0 THEN {x0}
    ELSE UNION {{[p EXCEPT ![k] = s] : s \in sign_dot(Wm[k], p)} :
                    p \in step_upto(x0, Wm, k - 1)}

\* faulty variant: the loop stops one neuron short (range(len(x) - 1))
hopfield_step_short(xx, Wm) == step_upto(xx, Wm, Len(xx) - 1)

\* one sweep: for i in range(len(x)): x[i] = np.sign(np.dot(W[i], x))
hopfield_step_async(xx, Wm) == step_upto(xx, Wm, Len(xx))

Bipolar(L) == [1..L -> {-1, 1}]
\* batches of 1..MaxP patterns of one length 1..MaxL
Batches ==
    UNION {SeqsUpTo(Bipolar(L), MaxP) \ {<<>>} : L \in 1..MaxL}
NormalizationFactors == {default_normalization_factor, FInt(1), FInt(-1)}

Train ==
    /\ h_pc = "train"
    /\ W' = train_hopfield(patterns, normalization_factor)
    /\ h_pc' = "trained"
    /\ UNCHANGED <<patterns, normalization_factor, digit, pattern, steps, x, sweep>>
    /\ UNCHANGED <<selVars, eulVars, hisVars>>

\* recall_async(pattern, W, steps) is entered: x = pattern.copy()
RecallEnter ==
    /\ h_pc = "trained"
    /\ \E q \in Bipolar(Len(patterns[1])), s \in 0..MaxSteps :
          /\ pattern' = q
          /\ steps' = s
          /\ x' = q
    /\ sweep' = 0
    /\ h_pc' = "recall"
    /\ UNCHANGED <<patterns, normalization_factor, W, digit>>
    /\ UNCHANGED <<selVars, eulVars, hisVars>>

\* noisy_digit: a copy of the digit with noise_size entries negated
noisy(p, idx) == [p EXCEPT ![idx] = -p[idx]]

\* one iteration of the loop over patterns_5_9, up to the call of recall_async
NoisyRecallEnter ==
    /\ h_pc = "trained"
    /\ \E d \in 1..Len(patterns), idx \in 1..Len(patterns[1]) :
          /\ digit' = d
          /\ pattern' = noisy(patterns[d], idx)
          /\ x' = noisy(patterns[d], idx)
    /\ steps' = default_steps
    /\ sweep' = 0
    /\ h_pc' = "recall"
    /\ UNCHANGED <<patterns, normalization_factor, W>>
    /\ UNCHANGED <<selVars, eulVars, hisVars>>

\* for _ in range(steps): x = hopfield_step_async(x, W)
Sweep ==
    /\ h_pc = "recall"
    /\ sweep < steps
    /\ x' \in hopfield_step_async(x, W)
    /\ sweep' = sweep + 1
    /\ UNCHANGED <<patterns, normalization_factor, W, digit, pattern, steps, h_pc>>
    /\ UNCHANGED <<selVars, eulVars, hisVars>>

RecallReturn ==
    /\ h_pc = "recall"
    /\ sweep >= steps
    /\ h_pc' = "returned"
    /\ UNCHANGED <<patterns, normalization_factor, W, digit, pattern, steps, x, sweep>>
    /\ UNCHANGED <<selVars, eulVars, hisVars>>

-----------------------------------------------------------------------------
(* Properties: stimulus selection and motor scheme (SpecSelect).           *)

\* the 0-based indices whose intensity no other intensity exceeds
Winners(s) == {j - 1 : j \in {q \in 1..Len(s) : \A r \in 1..Len(s) : s[r] <= s[q]}}

RECURSIVE SetSum(_)
SetSum(S) == IF S = {} THEN 0 ELSE LET e == CHOOSE e \in S : TRUE IN e + SetSum(S \ {e})

Increasing(l) == \A a, b \in 1..Len(l) : a < b => l[a] < l[b]

\* C1: with two or more entries equal to the maximum select_stimulus returns
\* the list of all indices attaining it, in increasing order, and
\* select_stimulus_no_winner returns None; with exactly one such entry both
\* return that index.
C1_TiePolicies ==
    LET M == Winners(stimuli)
    IN  /\ selected # Unset =>
              IF Cardinality(M) >= 2
              THEN /\ selected.kind = "list"
                   /\ {selected.l[k] : k \in 1..Len(selected.l)} = M
                   /\ Len(selected.l) = Cardinality(M)
                   /\ Increasing(selected.l)
              ELSE /\ selected.kind = "index"
                   /\ M = {selected.i}
        /\ noWinner # Unset =>
              IF Cardinality(M) >= 2
              THEN noWinner = None
              ELSE /\ noWinner.kind = "index"
                   /\ M = {noWinner.i}
        /\ (selected # Unset /\ noWinner # Unset /\ Cardinality(M) = 1) =>
              selected = noWinner

\* both policies have answered a vector with three tied maxima and a loser
C1_Witness ==
    /\ selected.kind = "list"
    /\ noWinner = None
    /\ Len(selected.l) = 3
    /\ Len(stimuli) > 3

\* average(those indices) - (n-1)/2, as binary64 evaluates the expression
AverageThenCentre(M, n) ==
    FSub(FDiv(FInt(SetSum(M)), FInt(Cardinality(M))), FDiv(FInt(n - 1), FInt(2)))

\* what C2 says of a direction v in either reading: v is the average of
\* i - (n-1)/2 over the winning indices M (the binary64 number nearest to
\* it), for a unique maximum at i exactly i - (n-1)/2, within
\* [-(n-1)/2, (n-1)/2], 3.5 for stimuli_1 and 1.0 for stimuli_2
AverageOfCentred(v, M, n) ==
    LET k == Cardinality(M)
    IN  /\ v = FDiv(FInt(2 * SetSum(M) - k * (n - 1)), FInt(2 * k))
        /\ k = 1 => \E i \in M : v = FSub(FInt(i), FDiv(FInt(n - 1), FInt(2)))
        /\ FLe(FNeg(FDiv(FInt(n - 1), FInt(2))), v)
        /\ FLe(v, FDiv(FInt(n - 1), FInt(2)))
        /\ stimuli = stimuli_1 => v = Float(<<35, 10>>)
        /\ stimuli = stimuli_2 => v = FInt(1)

\* C2 as stated: motor_scheme returns the average of i - (n-1)/2 over the
\* indices attaining the maximum, which equals average(those indices) -
\* (n-1)/2 (exactly i - (n-1)/2 for a unique maximum at i) and lies in
\* [-(n-1)/2, (n-1)/2]; stimuli_1 gives 3.5 and stimuli_2 gives 1.0.
C2_MotorScheme ==
    direction # Unset =>
        /\ AverageOfCentred(direction.v, Winners(stimuli), Len(stimuli))
        /\ direction.v = AverageThenCentre(Winners(stimuli), Len(stimuli))

\* C2 amended: motor_scheme returns the average of i - (n-1)/2 over the
\* indices attaining the maximum, rounded once to binary64 (exactly
\* i - (n-1)/2 for a unique maximum at i), within [-(n-1)/2, (n-1)/2]; it
\* equals average(those indices) - (n-1)/2 as binary64 evaluates it when
\* 1, 2 or 4 indices are tied; stimuli_1 gives 3.5 and stimuli_2 gives 1.0.
C2_MotorSchemeRounded ==
    direction # Unset =>
        /\ AverageOfCentred(direction.v, Winners(stimuli), Len(stimuli))
        /\ Cardinality(Winners(stimuli)) \in {1, 2, 4} =>
               direction.v = AverageThenCentre(Winners(stimuli), Len(stimuli))

\* the direction of a vector with three tied maxima has been computed, and
\* it is not what average(indices) - (n-1)/2 evaluates to
C2_Witness ==
    /\ direction # Unset
    /\ Cardinality(Winners(stimuli)) = 3
    /\ direction.v # AverageThenCentre(Winners(stimuli), Len(stimuli))

-----------------------------------------------------------------------------
(* Properties: Hopfield training and recall.                               *)

RECURSIVE Correlation(_, _, _, _)
\* sum over the first k patterns of p[i] * p[j]
Correlation(ps, k, i, j) ==
    IF k = 0 THEN 0 ELSE Correlation(ps, k - 1, i, j) + ps[k][i] * ps[k][j]

\* sum over all patterns of p[i] * p[j]
Corr(i, j) == Correlation(patterns, Len(patterns), i, j)

\* C3 as stated: the trained W is symmetric with a zero diagonal, and off
\* the diagonal W[i][j] = normalization_factor * (sum over patterns of
\* p[i]*p[j]) / L.
C3_SymmetricZeroDiagonal ==
    h_pc = "trained" =>
        LET L == Len(patterns[1])
        IN  /\ Len(W) = L
            /\ \A i, j \in 1..L :
                  /\ W[i][j] = W[j][i]
                  /\ W[i][i] = FZero
                  /\ i # j => W[i][j] = FDiv(FMul(normalization_factor, FInt(Corr(i, j))),
                                             FInt(L))

\* C3 amended: the trained W is symmetric with a zero diagonal, and off the
\* diagonal W[i][j] = ((sum over patterns of p[i]*p[j]) / L) *
\* normalization_factor, the quotient and the product each rounded to
\* binary64.
C3_SymmetricZeroDiagonalRounded ==
    h_pc = "trained" =>
        LET L == Len(patterns[1])
        IN  /\ Len(W) = L
            /\ \A i, j \in 1..L :
                  /\ W[i][j] = W[j][i]
                  /\ W[i][i] = FZero
                  /\ i # j => W[i][j] = FMul(FDiv(FInt(Corr(i, j)), FInt(L)),
                                             normalization_factor)

\* the digits 5-9 have been trained with the default factor, and one of the
\* weights is not normalization_factor * correlation / L as binary64
\* computes that expression
C3_Witness ==
    /\ h_pc = "trained"
    /\ patterns = patterns_5_9
    /\ normalization_factor = default_normalization_factor
    /\ \E i, j \in 1..25 :
          /\ W[i][j] # FZero
          /\ W[i][j] # FDiv(FMul(normalization_factor, FInt(Corr(i, j))), FInt(25))

\* C4: during and after recall_async every entry of x is -1 or +1.
C4_RecallIsBipolar ==
    h_pc \in {"recall", "returned"} => \A j \in 1..Len(x) : x[j] \in {-1, 1}

RECURSIVE IDot(_, _, _)
IDot(p, q, k) == IF k = 0 THEN 0 ELSE IDot(p, q, k - 1) + p[k] * q[k]

Orthogonal(ps) ==
    \A a, b \in 1..Len(ps) : a # b => IDot(ps[a], ps[b], Len(ps[a])) = 0

\* C5: with mutually orthogonal patterns and a positive normalization_factor,
\* recall_async started from a stored pattern holds that pattern after every sweep.
C5_StoredPatternsAreFixedPoints ==
    ( /\ h_pc \in {"recall", "returned"}
      /\ Orthogonal(patterns)
      /\ FLt(FZero, normalization_factor)
      /\ \E k \in 1..Len(patterns) : patterns[k] = pattern )
        => x = pattern

\* the 0-based index negated by the noise injection
FlipIndex == (CHOOSE j \in 1..Len(pattern) : pattern[j] # patterns[digit][j]) - 1

\* C6 as stated: for every digit of patterns_5_9 and every single flipped
\* index, recall_async over 50 sweeps returns the original digit.
C6_EverySingleFlipRecovered ==
    h_pc = "returned" => x = patterns[digit]

\* digit 6 with index 4 flipped; digit 5 with index 20 flipped
Digit6Flip4 == digit = 2 /\ FlipIndex = 4
Digit5Flip20 == digit = 1 /\ FlipIndex = 20

\* C6 amended: recall returns the original digit for every digit and flipped
\* index except digit 6 with index 4, which is never recovered, and digit 5
\* with index 20, whose result depends on how a cancelling sum is rounded.
\* The original is reached within two sweeps and kept until the return.
C6_SingleFlipRecoveredExceptTwo ==
    /\ (h_pc \in {"recall", "returned"} /\ sweep >= 2 /\ ~(Digit6Flip4 \/ Digit5Flip20))
          => x = patterns[digit]
    /\ (h_pc = "returned" /\ Digit6Flip4) => x # patterns[digit]

\* a noisy digit has been recalled to its original through a sweep that met a
\* cancelling sum (digit 5, index 6)
C6_Witness ==
    /\ h_pc = "returned"
    /\ sweep = default_steps
    /\ digit = 1
    /\ FlipIndex = 6
    /\ x = patterns[digit]
    /\ pattern # x

-----------------------------------------------------------------------------
(* Properties: euler_method (SpecEuler).                                   *)

\* C8: a call with step_size <= 0 or t_end < t_start raises before any
\* integration step and returns nothing.
C8_InvalidStepConfigRejected ==
    (FLe(dt, FZero) \/ FLt(tf, t0)) => e_pc \in {"call", "raised"}

\* value k + 1 keeps the sign of value k (or is 0) and is no larger in
\* magnitude
DecayStep(v, k) ==
    /\ ~IsNaN(v[k + 1])
    /\ FSgn(v[k + 1]) \in {FSgn(v[k]), 0}
    /\ FLe(FAbs(v[k + 1]), FAbs(v[k]))

DecayCase ==
    /\ e_pc \in {"loop", "returned"}
    /\ f.v_rest = FZero
    /\ I_ext = FZero
    /\ FLt(FZero, f.tau)
    /\ FLt(FZero, dt)
    /\ y0 # FZero

\* C9 as stated: with external_input = 0, V_rest = 0, tau > 0, any positive
\* step_size and a non-zero initial value, each value keeps the sign of the
\* one before (or is 0) and is no larger in magnitude.
C9_DecayForEveryStepSize ==
    DecayCase => \A k \in 1..(Len(ys) - 1) : DecayStep(ys, k)

\* values[k] / tau is zero or a normal number: the quotient neither
\* overflows nor falls below 2^-1022
QuotientInRange(v, k) == v[k] = FZero \/ IsNormal(FDiv(v[k], f.tau))

\* C9 amended: the same for step_size < tau, at every k where values[k] /
\* tau is zero or a normal binary64 number.
C9_DecayForStepBelowTau ==
    (DecayCase /\ FLt(dt, f.tau)) =>
        \A k \in 1..(Len(ys) - 1) : QuotientInRange(ys, k) => DecayStep(ys, k)

\* a run with step_size just below tau has returned after two steps that
\* round, from an initial value whose quotient by tau is rounded
C9_Witness ==
    /\ DecayCase
    /\ f.tau = Float(<<15, 100>>)
    /\ dt = Below(Float(<<15, 100>>))
    /\ y0 = FInt(7)
    /\ e_pc = "returned"
    /\ Len(ys) >= 3
    /\ QuotientInRange(ys, 1) /\ QuotientInRange(ys, 2)
    /\ ys[2] # ys[1] /\ ys[3] # ys[2]

-----------------------------------------------------------------------------
(* Properties: metodoEulerHisteresis (SpecHisteresis).                     *)

\* I_k: ten times stimulus k, 0 past the end of the sequence (k is 0-based)
Input(k) == IF k < Len(estimulos) THEN FMul(FInt(10), estimulos[k + 1]) ELSE FZero

\* what one loop iteration (iteration k = len(voltajes) - 1) must do
C7_GateStep ==
    (m_pc = "loop" /\ Len(voltajes') = Len(voltajes) + 1) =>
        LET k == Len(voltajes) - 1
            I == Input(k)
        IN  /\ voltajes[k + 1] = voltaje
            /\ voltajes'[k + 2] = voltaje'
            /\ IF FLt(umbral, I)
               THEN /\ voltaje' = FAdd(voltaje,
                                       FMul(pasoTiempo,
                                            FDiv(FSub(I, FSub(voltaje, FInt(-65))),
                                                 FInt(10))))
                    /\ voltajeAnterior' = voltaje'
               ELSE /\ voltaje' = voltajeAnterior
                    /\ voltajeAnterior' = voltajeAnterior
\* C7: at step k, if I_k > umbral then values[k+1] = values[k] +
\* pasoTiempo * funcion(values[k], t_k, I_k) and the retained value becomes
\* values[k+1]; otherwise (I_k <= umbral) values[k+1] is the retained value,
\* which stays as it was.
C7_StrictGate == [][C7_GateStep]_vars

\* a run has returned after a step whose input equalled the threshold and a
\* step whose input exceeded it
C7_Witness ==
    /\ m_pc = "returned"
    /\ \E k \in 0..(numeroPasos - 1) : Input(k) = umbral /\ Input(k) # FZero
    /\ \E k \in 0..(numeroPasos - 1) : FLt(umbral, Input(k))

\* C10: after every completed iteration voltaje = voltajeAnterior, so a held
\* step after the first repeats the previous value.
C10_ValueIsRetained ==
    (m_pc \in {"loop", "returned"} /\ Len(voltajes) >= 2) =>
        /\ voltaje = voltajeAnterior
        /\ \A k \in 1..(Len(voltajes) - 2) :
              FLe(Input(k), umbral) => voltajes[k + 2] = voltajes[k + 1]

\* a run whose first step was held and changed the value, and which later
\* held again after a driven step
C10_Witness ==
    /\ m_pc = "returned"
    /\ Len(voltajes) >= 4
    /\ FLe(Input(0), umbral)
    /\ voltajes[2] # voltajes[1]
    /\ \E k \in 2..(Len(voltajes) - 2) :
          /\ FLe(Input(k), umbral)
          /\ FLt(umbral, Input(k - 1))

-----------------------------------------------------------------------------
(* Specifications.                                                         *)

InitSelect ==
    /\ stimuli \in StimulusInputs
    /\ selected = Unset
    /\ noWinner = Unset
    /\ direction = Unset
    \* the other exercises are not running
    /\ f = membrane_potential_fn
    /\ y0 = FZero /\ t0 = FZero /\ tf = FZero /\ dt = FZero /\ I_ext = FZero
    /\ n_steps = 0 /\ y = FZero /\ t = FZero /\ ys = <<>> /\ ts = <<>>
    /\ e_pc = "idle"
    /\ voltajeInicial = FZero /\ tiempoInicial = FZero /\ tiempoFinal = FZero
    /\ pasoTiempo = FZero /\ estimulos = <<>> /\ umbral = FZero
    /\ voltajeAnterior = FZero /\ numeroPasos = 0 /\ voltaje = FZero /\ tiempo = FZero
    /\ voltajes = <<>> /\ tiempos = <<>>
    /\ m_pc = "idle"
    /\ patterns = <<>> /\ normalization_factor = FZero /\ W = <<>>
    /\ digit = 0 /\ pattern = <<>> /\ steps = 0 /\ x = <<>> /\ sweep = 0
    /\ h_pc = "idle"

InitEuler ==
    /\ f \in Derivatives
    /\ y0 \in InitialValues
    /\ t0 \in StartTimes
    /\ tf \in EndTimes
    /\ dt \in StepSizes
    /\ I_ext \in ExternalInputs
    /\ n_steps = 0 /\ y = FZero /\ t = FZero /\ ys = <<>> /\ ts = <<>>
    /\ e_pc = "call"
    \* the other exercises are not running
    /\ stimuli = <<>>
    /\ selected = Unset
    /\ noWinner = Unset
    /\ direction = Unset
    /\ voltajeInicial = FZero /\ tiempoInicial = FZero /\ tiempoFinal = FZero
    /\ pasoTiempo = FZero /\ estimulos = <<>> /\ umbral = FZero
    /\ voltajeAnterior = FZero /\ numeroPasos = 0 /\ voltaje = FZero /\ tiempo = FZero
    /\ voltajes = <<>> /\ tiempos = <<>>
    /\ m_pc = "idle"
    /\ patterns = <<>> /\ normalization_factor = FZero /\ W = <<>>
    /\ digit = 0 /\ pattern = <<>> /\ steps = 0 /\ x = <<>> /\ sweep = 0
    /\ h_pc = "idle"

InitHisteresis ==
    /\ voltajeInicial \in Voltages
    /\ voltajeAnterior \in Voltages
    /\ tiempoInicial = FZero
    /\ tiempoFinal \in FinalTimes
    /\ pasoTiempo \in Pasos
    /\ estimulos \in SeqsUpTo(StimulusLevels, MaxStim)
    /\ umbral \in Thresholds
    /\ numeroPasos = 0 /\ voltaje = FZero /\ tiempo = FZero
    /\ voltajes = <<>> /\ tiempos = <<>>
    /\ m_pc = "call"
    \* the other exercises are not running
    /\ stimuli = <<>>
    /\ selected = Unset
    /\ noWinner = Unset
    /\ direction = Unset
    /\ f = membrane_potential_fn
    /\ y0 = FZero /\ t0 = FZero /\ tf = FZero /\ dt = FZero /\ I_ext = FZero
    /\ n_steps = 0 /\ y = FZero /\ t = FZero /\ ys = <<>> /\ ts = <<>>
    /\ e_pc = "idle"
    /\ patterns = <<>> /\ normalization_factor = FZero /\ W = <<>>
    /\ digit = 0 /\ pattern = <<>> /\ steps = 0 /\ x = <<>> /\ sweep = 0
    /\ h_pc = "idle"

InitHopfield ==
    /\ patterns \in Batches
    /\ normalization_factor \in NormalizationFactors
    /\ W = <<>>
    /\ digit = 0 /\ pattern = <<>> /\ steps = 0 /\ x = <<>> /\ sweep = 0
    /\ h_pc = "train"
    \* the other exercises are not running
    /\ stimuli = <<>>
    /\ selected = Unset
    /\ noWinner = Unset
    /\ direction = Unset
    /\ f = membrane_potential_fn
    /\ y0 = FZero /\ t0 = FZero /\ tf = FZero /\ dt = FZero /\ I_ext = FZero
    /\ n_steps = 0 /\ y = FZero /\ t = FZero /\ ys = <<>> /\ ts = <<>>
    /\ e_pc = "idle"
    /\ voltajeInicial = FZero /\ tiempoInicial = FZero /\ tiempoFinal = FZero
    /\ pasoTiempo = FZero /\ estimulos = <<>> /\ umbral = FZero
    /\ voltajeAnterior = FZero /\ numeroPasos = 0 /\ voltaje = FZero /\ tiempo = FZero
    /\ voltajes = <<>> /\ tiempos = <<>>
    /\ m_pc = "idle"

\* train_hopfield called on an enumerated batch or on the digits 5-9
InitTrain ==
    /\ patterns \in Batches \cup {patterns_5_9}
    /\ normalization_factor \in NormalizationFactors
    /\ W = <<>>
    /\ digit = 0 /\ pattern = <<>> /\ steps = 0 /\ x = <<>> /\ sweep = 0
    /\ h_pc = "train"
    \* the other exercises are not running
    /\ stimuli = <<>>
    /\ selected = Unset
    /\ noWinner = Unset
    /\ direction = Unset
    /\ f = membrane_potential_fn
    /\ y0 = FZero /\ t0 = FZero /\ tf = FZero /\ dt = FZero /\ I_ext = FZero
    /\ n_steps = 0 /\ y = FZero /\ t = FZero /\ ys = <<>> /\ ts = <<>>
    /\ e_pc = "idle"
    /\ voltajeInicial = FZero /\ tiempoInicial = FZero /\ tiempoFinal = FZero
    /\ pasoTiempo = FZero /\ estimulos = <<>> /\ umbral = FZero
    /\ voltajeAnterior = FZero /\ numeroPasos = 0 /\ voltaje = FZero /\ tiempo = FZero
    /\ voltajes = <<>> /\ tiempos = <<>>
    /\ m_pc = "idle"

\* the script's run on digits 5-9: W_5_9 = train_hopfield(patterns_5_9)
InitDigits ==
    /\ patterns = patterns_5_9
    /\ normalization_factor = default_normalization_factor
    /\ W = <<>>
    /\ digit = 0 /\ pattern = <<>> /\ steps = 0 /\ x = <<>> /\ sweep = 0
    /\ h_pc = "train"
    \* the other exercises are not running
    /\ stimuli = <<>>
    /\ selected = Unset
    /\ noWinner = Unset
    /\ direction = Unset
    /\ f = membrane_potential_fn
    /\ y0 = FZero /\ t0 = FZero /\ tf = FZero /\ dt = FZero /\ I_ext = FZero
    /\ n_steps = 0 /\ y = FZero /\ t = FZero /\ ys = <<>> /\ ts = <<>>
    /\ e_pc = "idle"
    /\ voltajeInicial = FZero /\ tiempoInicial = FZero /\ tiempoFinal = FZero
    /\ pasoTiempo = FZero /\ estimulos = <<>> /\ umbral = FZero
    /\ voltajeAnterior = FZero /\ numeroPasos = 0 /\ voltaje = FZero /\ tiempo = FZero
    /\ voltajes = <<>> /\ tiempos = <<>>
    /\ m_pc = "idle"

NextSelect ==
    SelectStimulus \/ SelectStimulusNoWinner \/ MotorScheme
SpecSelect == InitSelect /\ [][NextSelect]_vars

NextEuler ==
    EulerEnter \/ EulerStep \/ EulerReturn
SpecEuler == InitEuler /\ [][NextEuler]_vars

NextHisteresis ==
    MetodoEnter \/ MetodoStep \/ MetodoReturn
SpecHisteresis == InitHisteresis /\ [][NextHisteresis]_vars

NextTrain == Train
SpecTrain == InitTrain /\ [][NextTrain]_vars

NextHopfield ==
    Train \/ RecallEnter \/ Sweep \/ RecallReturn
SpecHopfield == InitHopfield /\ [][NextHopfield]_vars

NextDigits ==
    Train \/ NoisyRecallEnter \/ Sweep \/ RecallReturn
SpecDigits == InitDigits /\ [][NextDigits]_vars

=============================================================================
